---- MODULE Spec2Model ----
(***************************************************************************)
(* State machine of the wardrobe environment console (src/App.tsx): the    *)
(* simulation interval ("firmware"), the automation useEffect, the UI      *)
(* handlers that write the simulation state and the report request         *)
(* (src/services/geminiService.ts).                                        *)
(*                                                                         *)
(* Numbers are fixed point, in hundredths: humidity 55 % is 5500, a mold   *)
(* index of 10 is 1000, the fan's -0.4 is 40.  Time is in milliseconds, as *)
(* Date.now().  The temperature field of SensorData is left out: nothing   *)
(* reads it back except the temperature update itself.                     *)
(***************************************************************************)
EXTENDS Integers, Sequences, FiniteSets, TLC

VARIABLES
    sensors,        \* useState<SensorData>: the current reading
    history,        \* useState<SensorData[]>: the chart's buffer
    devices,        \* useState<DeviceState>
    thresholds,     \* useState<Thresholds>
    effectPending,  \* the automation useEffect is scheduled (a dependency changed)
    now,            \* the clock read by Date.now()
    alertShown,     \* the last step called alert()
    evalPrev,       \* <<prev, fresh>> when the last step ran the setDevices updater on
                    \* prev, fresh telling whether the reading was a new one
    tickCount,      \* how often the interval's callback has run
    freshReading,   \* the current reading has not been through the automation effect yet
    timerElapsed,   \* ms since setInterval was called or its callback last ran
    intervalDevices, \* the devices object the interval's callback closed over
    isAnalyzing,    \* useState(false): the busy flag of the report tab
    aiAnalysis,     \* useState<string | null>(null): the report on display
    inFlight,       \* calls of analyzeWardrobeEnvironment that have not settled
    unhandledRejection  \* a rejected promise left handleGeminiAnalysis

timerVars == <<timerElapsed, intervalDevices>>

reportVars == <<isAnalyzing, aiAnalysis, inFlight, unhandledRejection>>

vars == <<sensors, history, devices, thresholds, effectPending, now, alertShown, evalPrev,
          tickCount, freshReading, timerVars, reportVars>>

----------------------------------------------------------------------------
(* Bounds of the model *)

MaxTicks == 1          \* ticks explored by Spec from each initial reading
MaxLongTicks == 60     \* ticks explored by SpecLong from the constructed state
MaxTimerTicks == 2     \* ticks explored by SpecTimer from the constructed state
MaxStrictTicks == 2    \* ticks explored by SpecStrict from the constructed state
MaxAutoTicks == 3      \* ticks explored by SpecAuto from each initial reading
MaxFloorTicks == 4     \* ticks explored by SpecFloor from its initial reading

\* Steps in which SpecTimer lets time pass between two events, in ms, and
\* the buttons and service outcomes it tries.
AdvanceChoices == {1000}
TimerDevices == {"autoMode", "fan"}
TimerOutcomes == {"text", "error"}

\* Math.random() lies in [0, 1); its outcomes are taken in hundredths.
RandChoices == {0, 50, 99}

\* Positions of the maxHumidity slider that are tried (it offers 30..90).
SliderChoices == {60, 65}

\* Seeds of the pseudo-random sequence behind one generateInitialData() call.
Seeds == {0}

----------------------------------------------------------------------------
(* Program constants *)

TickPeriod == 2000
SeedSpacing == 3000
SeedCount == 20
SeedHumidityBase == 5000
SeedHumiditySpan == 1000
SeedMoldBase == 500
SeedMoldSpan == 500
HistoryKeep == 50

DriftSpan == 50
FanDrying == 40
DehumidifierDrying == 120
UvKill == 200
MoldGrowthHumid == 7000
MoldGrowthHumidRate == 50
MoldGrowthWet == 8000
MoldGrowthWetRate == 100
HumidityMin == 3000
HumidityMax == 9900
MoldMin == 0
MoldMax == 10000

HysteresisBand == 500
MoldOn == 4000
MoldOff == 500

SliderMin == 30
SliderMax == 90

\* How far SpecTimer follows the clock.
ClockHorizon == 3 * TickPeriod

DeviceNames == {"fan", "dehumidifier", "uvLight", "autoMode"}

InitialSensors == [timestamp |-> 0, humidity |-> 5500, moldIndex |-> 1000]
InitialDevices == [fan |-> FALSE, dehumidifier |-> FALSE, uvLight |-> FALSE, autoMode |-> TRUE]
InitialThresholds == [maxHumidity |-> 65, triggerUVPeriod |-> 24]

----------------------------------------------------------------------------
(* Pure helpers *)

Max(a, b) == IF a > b THEN a ELSE b
Min(a, b) == IF a < b THEN a ELSE b

\* The n-th Math.random() outcome of the sequence started from seed.
RandSeq(seed, n) == CASE (seed + n) % 3 = 0 -> 0
                      [] (seed + n) % 3 = 1 -> 50
                      [] OTHER -> 99

\* (Math.random() - 0.5) * 0.5, r in hundredths, result in hundredths
Drift(r) == ((r - 50) * DriftSpan) \div 100

\* Mutant of ClampHumidity: the upper clamp Math.min(99, .) is missing.
ClampHumidityNoMax(h) == Max(HumidityMin, h)

\* Math.max(30, Math.min(99, newHum))
ClampHumidity(h) == Max(HumidityMin, Min(HumidityMax, h))

\* Math.max(0, Math.min(100, newMold))
ClampMold(m) == Max(MoldMin, Min(MoldMax, m))

\* Mutant of generateInitialData: the loop counts up, i = 1 to 20, so the
\* newest reading comes first.
generateInitialDataNewestFirst(t, seed) ==
    [j \in 1..SeedCount |->
        [timestamp |-> t - j * SeedSpacing,
         humidity  |-> SeedHumidityBase + (RandSeq(seed, 2 * j) * SeedHumiditySpan) \div 100,
         moldIndex |-> SeedMoldBase + (RandSeq(seed, 2 * j + 1) * SeedMoldSpan) \div 100]]

\* generateInitialData(): 20 readings, i = 20 down to 1, at t - i * 3000
generateInitialData(t, seed) ==
    [j \in 1..SeedCount |->
        LET i == SeedCount + 1 - j
        IN [timestamp |-> t - i * SeedSpacing,
            humidity  |-> SeedHumidityBase + (RandSeq(seed, 2 * j) * SeedHumiditySpan) \div 100,
            moldIndex |-> SeedMoldBase + (RandSeq(seed, 2 * j + 1) * SeedMoldSpan) \div 100]]

\* h.slice(-n): the last n elements (all of them when there are fewer)
SliceLast(h, n) == IF Len(h) <= n THEN h ELSE SubSeq(h, Len(h) - n + 1, Len(h))

\* setHistory(h => [...h.slice(-50), newData])
AppendHistory(h, newData) == Append(SliceLast(h, HistoryKeep), newData)

\* Mutant of TickReading: the else of the uvLight branch is missing, mold
\* grows in humid air even under the UV light.
TickReadingGrowsUnderUv(prev, dev, r, t) ==
    LET drifted == prev.humidity + Drift(r)
        fanned  == IF dev.fan THEN drifted - FanDrying ELSE drifted
        newHum  == IF dev.dehumidifier THEN fanned - DehumidifierDrying ELSE fanned
        newMold == prev.moldIndex
                   - (IF dev.uvLight THEN UvKill ELSE 0)
                   + (IF newHum > MoldGrowthHumid THEN MoldGrowthHumidRate ELSE 0)
                   + (IF newHum > MoldGrowthWet THEN MoldGrowthWetRate ELSE 0)
    IN [timestamp |-> t,
        humidity  |-> ClampHumidity(newHum),
        moldIndex |-> ClampMold(newMold)]

\* The setSensors updater: the next reading from prev, the devices the
\* interval closed over, the random outcome r and the time of the tick.
TickReading(prev, dev, r, t) ==
    LET drifted == prev.humidity + Drift(r)
        fanned  == IF dev.fan THEN drifted - FanDrying ELSE drifted
        newHum  == IF dev.dehumidifier THEN fanned - DehumidifierDrying ELSE fanned
        newMold == IF dev.uvLight
                   THEN prev.moldIndex - UvKill
                   ELSE prev.moldIndex
                        + (IF newHum > MoldGrowthHumid THEN MoldGrowthHumidRate ELSE 0)
                        + (IF newHum > MoldGrowthWet THEN MoldGrowthWetRate ELSE 0)
    IN [timestamp |-> t,
        humidity  |-> ClampHumidity(newHum),
        moldIndex |-> ClampMold(newMold)]

\* Mutant of HumidityControl: no dead band, the devices are switched off as
\* soon as the humidity is back at or below the threshold.
HumidityControlNoBand(prev, s, th) ==
    IF s.humidity > th.maxHumidity * 100
    THEN IF ~prev.fan /\ ~prev.dehumidifier
         THEN [prev EXCEPT !.fan = TRUE, !.dehumidifier = TRUE]
         ELSE prev
    ELSE IF prev.fan \/ prev.dehumidifier
         THEN [prev EXCEPT !.fan = FALSE, !.dehumidifier = FALSE]
         ELSE prev

\* Mutant of HumidityControl: the switch-off branch is guarded like the
\* switch-on branch, by both devices being in the same state.
HumidityControlOffNeedsBoth(prev, s, th) ==
    IF s.humidity > th.maxHumidity * 100
    THEN IF ~prev.fan /\ ~prev.dehumidifier
         THEN [prev EXCEPT !.fan = TRUE, !.dehumidifier = TRUE]
         ELSE prev
    ELSE IF s.humidity < th.maxHumidity * 100 - HysteresisBand
         THEN IF prev.fan /\ prev.dehumidifier
              THEN [prev EXCEPT !.fan = FALSE, !.dehumidifier = FALSE]
              ELSE prev
         ELSE prev

\* Mutant of HumidityControl: the switch-on branch forgets the dehumidifier.
HumidityControlFanOnly(prev, s, th) ==
    IF s.humidity > th.maxHumidity * 100
    THEN IF ~prev.fan /\ ~prev.dehumidifier
         THEN [prev EXCEPT !.fan = TRUE]
         ELSE prev
    ELSE IF s.humidity < th.maxHumidity * 100 - HysteresisBand
         THEN IF prev.fan \/ prev.dehumidifier
              THEN [prev EXCEPT !.fan = FALSE, !.dehumidifier = FALSE]
              ELSE prev
         ELSE prev

\* Humidity control logic of the setDevices updater
HumidityControl(prev, s, th) ==
    IF s.humidity > th.maxHumidity * 100
    THEN IF ~prev.fan /\ ~prev.dehumidifier
         THEN [prev EXCEPT !.fan = TRUE, !.dehumidifier = TRUE]
         ELSE prev
    ELSE IF s.humidity < th.maxHumidity * 100 - HysteresisBand
         THEN IF prev.fan \/ prev.dehumidifier
              THEN [prev EXCEPT !.fan = FALSE, !.dehumidifier = FALSE]
              ELSE prev
         ELSE prev

\* Mutant of MoldControl: one threshold, the light goes off as soon as the
\* mold index is no longer above 40.
MoldControlNoBand(prev, s) ==
    IF s.moldIndex > MoldOn /\ ~prev.uvLight THEN TRUE
    ELSE IF s.moldIndex <= MoldOn /\ prev.uvLight THEN FALSE
    ELSE prev.uvLight

\* Mold safety logic of the setDevices updater: the new uvLight
MoldControl(prev, s) ==
    IF s.moldIndex > MoldOn /\ ~prev.uvLight THEN TRUE
    ELSE IF s.moldIndex < MoldOff /\ prev.uvLight THEN FALSE
    ELSE prev.uvLight

\* Mutant of DecideChanged: the flag starts out true, so the updater
\* returns the copy next from every evaluation.
DecideChangedAlways(prev, s, th) == TRUE

\* The changed flag of the setDevices updater: one of the four assignments
\* to next has been made.
DecideChanged(prev, s, th) ==
    \/ /\ s.humidity > th.maxHumidity * 100
       /\ ~prev.fan /\ ~prev.dehumidifier
    \/ /\ ~(s.humidity > th.maxHumidity * 100)
       /\ s.humidity < th.maxHumidity * 100 - HysteresisBand
       /\ (prev.fan \/ prev.dehumidifier)
    \/ /\ s.moldIndex > MoldOn /\ ~prev.uvLight
    \/ /\ ~(s.moldIndex > MoldOn /\ ~prev.uvLight)
       /\ s.moldIndex < MoldOff /\ prev.uvLight

\* Mutant of Decide: the mold safety logic is chained to the humidity logic
\* with else if, so it is skipped whenever the humidity is outside the band.
DecideMoldChained(prev, s, th) ==
    LET outside == \/ s.humidity > th.maxHumidity * 100
                   \/ s.humidity < th.maxHumidity * 100 - HysteresisBand
        next == [HumidityControl(prev, s, th) EXCEPT
                   !.uvLight = IF outside THEN prev.uvLight ELSE MoldControl(prev, s)]
    IN IF DecideChanged(prev, s, th) THEN next ELSE prev

\* The setDevices updater of the automation effect (changed ? next : prev)
Decide(prev, s, th) ==
    LET next == [HumidityControl(prev, s, th) EXCEPT !.uvLight = MoldControl(prev, s)]
    IN IF DecideChanged(prev, s, th) THEN next ELSE prev

\* The setHistory updaters queued by the invocations of the setSensors
\* updater, applied in order.
RECURSIVE AppendAll(_, _)
AppendAll(h, readings) ==
    IF readings = <<>>
    THEN h
    ELSE AppendAll(AppendHistory(h, Head(readings)), Tail(readings))

\* What the text-generation service does with one request.
ServiceOutcomes == {"text", "empty", "error"}

\* The strings analyzeWardrobeEnvironment can return: the service's text,
\* the sentence that stands in for an empty response.text (line 45), and
\* the sentence of the catch block (line 48).
ReportText == "report"
EmptyFallback == "no report could be generated"
FailureSentinel == "connection to the AI service failed"

\* Mutant of analyzeWardrobeEnvironment: no try/catch around the call.
analyzeWardrobeEnvironmentNoCatch(outcome) ==
    CASE outcome = "text"  -> [status |-> "fulfilled", value |-> ReportText]
      [] outcome = "empty" -> [status |-> "fulfilled", value |-> EmptyFallback]
      [] OTHER             -> [status |-> "rejected", value |-> "error"]

\* analyzeWardrobeEnvironment(): how the promise it returns settles
analyzeWardrobeEnvironment(outcome) ==
    CASE outcome = "text"  -> [status |-> "fulfilled", value |-> ReportText]
      [] outcome = "empty" -> [status |-> "fulfilled", value |-> EmptyFallback]
      [] OTHER             -> [status |-> "fulfilled", value |-> FailureSentinel]

----------------------------------------------------------------------------
(* Actions *)

\* Mutant of Resubscribe: the simulation effect has an empty dependency
\* list, so the interval of the mount keeps running with its first closure.
ResubscribeNever(newDevices) ==
    UNCHANGED timerVars

\* The simulation useEffect and its cleanup, dependencies [devices]: a commit
\* with a new devices object clears the interval and sets a new one, whose
\* callback closes over the new object.
Resubscribe(newDevices) ==
    IF newDevices # devices
    THEN /\ intervalDevices' = newDevices
         /\ timerElapsed' = 0
    ELSE UNCHANGED timerVars

\* The setInterval callback, once the rest of the period has passed with
\* nothing else happening: the setSensors updater is invoked once per
\* element of rs (index.tsx renders under React.StrictMode, which invokes
\* updaters twice in a development build), with the same prev, and each
\* invocation calls setHistory with its own newData.  The automation effect
\* of the previous commit has been flushed before a 2000 ms timer fires.
TickInvoked(rs, maxTicks) ==
    /\ ~effectPending
    /\ tickCount < maxTicks
    /\ tickCount' = tickCount + 1
    /\ now' = now + (TickPeriod - timerElapsed)
    /\ timerElapsed' = 0
    /\ LET readings == [i \in 1..Len(rs) |->
                          TickReading(sensors, intervalDevices, rs[i], now')]
       IN /\ sensors' = readings[Len(rs)]
          /\ history' = AppendAll(history, readings)
    /\ effectPending' = TRUE
    /\ freshReading' = TRUE
    /\ alertShown' = FALSE
    /\ evalPrev' = <<>>
    /\ UNCHANGED <<devices, thresholds, intervalDevices, reportVars>>

\* A tick whose updater is invoked once.
Tick(r, maxTicks) == TickInvoked(<<r>>, maxTicks)

\* Mutant of AutomationEffect: the early return on !devices.autoMode is missing.
AutomationEffectNoGate ==
    /\ effectPending
    /\ effectPending' = FALSE
    /\ freshReading' = FALSE
    /\ devices' = Decide(devices, sensors, thresholds)
    /\ Resubscribe(devices')
    /\ evalPrev' = <<devices, freshReading>>
    /\ alertShown' = FALSE
    /\ UNCHANGED <<sensors, history, thresholds, now, tickCount, reportVars>>

\* The automation useEffect, run once after a commit that changed one of
\* its dependencies [sensors, thresholds.maxHumidity, devices.autoMode].
AutomationEffect ==
    /\ effectPending
    /\ effectPending' = FALSE
    /\ freshReading' = FALSE
    /\ IF ~devices.autoMode
       THEN /\ devices' = devices
            /\ evalPrev' = <<>>
       ELSE /\ devices' = Decide(devices, sensors, thresholds)
            /\ evalPrev' = <<devices, freshReading>>
    /\ Resubscribe(devices')
    /\ alertShown' = FALSE
    /\ UNCHANGED <<sensors, history, thresholds, now, tickCount, reportVars>>

\* Mutant of toggleDevice: the alert is raised but the return is missing.
toggleDeviceNoReturn(device) ==
    /\ alertShown' = (device # "autoMode" /\ devices.autoMode)
    /\ devices' = [devices EXCEPT ![device] = ~@]
    /\ Resubscribe(devices')
    /\ effectPending' = (effectPending \/ device = "autoMode")
    /\ evalPrev' = <<>>
    /\ UNCHANGED <<sensors, history, thresholds, now, tickCount, freshReading, reportVars>>

\* Mutant of toggleDevice: switching the mode also switches the devices off.
toggleDeviceResets(device) ==
    /\ IF device # "autoMode" /\ devices.autoMode
       THEN /\ alertShown' = TRUE
            /\ UNCHANGED <<devices, effectPending>>
       ELSE /\ alertShown' = FALSE
            /\ devices' = IF device = "autoMode"
                          THEN [InitialDevices EXCEPT !.autoMode = ~devices.autoMode]
                          ELSE [devices EXCEPT ![device] = ~@]
            /\ effectPending' = (effectPending \/ device = "autoMode")
    /\ Resubscribe(devices')
    /\ evalPrev' = <<>>
    /\ UNCHANGED <<sensors, history, thresholds, now, tickCount, freshReading, reportVars>>

\* toggleDevice(device)
toggleDevice(device) ==
    /\ IF device # "autoMode" /\ devices.autoMode
       THEN /\ alertShown' = TRUE
            /\ UNCHANGED <<devices, effectPending>>
       ELSE /\ alertShown' = FALSE
            /\ devices' = [devices EXCEPT ![device] = ~@]
            /\ effectPending' = (effectPending \/ device = "autoMode")
    /\ Resubscribe(devices')
    /\ evalPrev' = <<>>
    /\ UNCHANGED <<sensors, history, thresholds, now, tickCount, freshReading, reportVars>>

\* The slider's onChange: setThresholds(prev => ({...prev, maxHumidity: v}))
SetMaxHumidity(v) ==
    /\ v \in SliderMin..SliderMax
    /\ thresholds' = [thresholds EXCEPT !.maxHumidity = v]
    /\ effectPending' = (effectPending \/ v # thresholds.maxHumidity)
    /\ alertShown' = FALSE
    /\ evalPrev' = <<>>
    /\ UNCHANGED <<sensors, history, devices, now, tickCount, freshReading,
                   timerVars, reportVars>>

\* Mutant of ResetHistory: the automation effect also depends on history.
ResetHistoryReruns(seed) ==
    /\ history' = generateInitialData(now, seed)
    /\ effectPending' = TRUE
    /\ alertShown' = FALSE
    /\ evalPrev' = <<>>
    /\ UNCHANGED <<sensors, devices, thresholds, now, tickCount, freshReading,
                   timerVars, reportVars>>

\* The history tab's reset button: setHistory(generateInitialData())
ResetHistory(seed) ==
    /\ history' = generateInitialData(now, seed)
    /\ alertShown' = FALSE
    /\ evalPrev' = <<>>
    /\ UNCHANGED <<sensors, devices, thresholds, effectPending, now, tickCount,
                   freshReading, timerVars, reportVars>>

\* Time passes with the interval waiting: step ms go by, no further than the
\* moment the interval is due, and effects are flushed long before that.
\* The clock is followed up to ClockHorizon and stands still there.
Advance(step) ==
    /\ ~effectPending
    /\ timerElapsed + step <= TickPeriod
    /\ timerElapsed' = timerElapsed + step
    /\ now' = IF now + step <= ClockHorizon THEN now + step ELSE now
    /\ alertShown' = FALSE
    /\ evalPrev' = <<>>
    /\ UNCHANGED <<sensors, history, devices, thresholds, effectPending, tickCount,
                   freshReading, intervalDevices, reportVars>>

\* The interval is due and its callback runs.
TimerFires(r, maxTicks) ==
    /\ timerElapsed = TickPeriod
    /\ Tick(r, maxTicks)

\* Mutant of ReportButtonEnabled: the button has no disabled attribute.
ReportButtonAlwaysEnabled == TRUE

\* The report button accepts a click: disabled={isAnalyzing}.  The click's
\* state update is committed before the browser delivers another event.
ReportButtonEnabled == ~isAnalyzing

\* handleGeminiAnalysis(), up to its await: the busy flag is set and
\* analyzeWardrobeEnvironment has sent its request.
handleGeminiAnalysis ==
    /\ ReportButtonEnabled
    /\ isAnalyzing' = TRUE
    /\ inFlight' = inFlight + 1
    /\ alertShown' = FALSE
    /\ evalPrev' = <<>>
    /\ UNCHANGED <<sensors, history, devices, thresholds, effectPending, now,
                   tickCount, freshReading, timerVars, aiAnalysis, unhandledRejection>>

\* handleGeminiAnalysis() after its await: the service has answered one
\* outstanding request with outcome, the promise of
\* analyzeWardrobeEnvironment settles and the handler resumes.  A rejected
\* promise ends the handler at the await.
ReportSettles(outcome) ==
    /\ inFlight > 0
    /\ inFlight' = inFlight - 1
    /\ LET promise == analyzeWardrobeEnvironment(outcome)
       IN IF promise.status = "fulfilled"
          THEN /\ aiAnalysis' = promise.value
               /\ isAnalyzing' = FALSE
               /\ UNCHANGED unhandledRejection
          ELSE /\ unhandledRejection' = TRUE
               /\ UNCHANGED <<aiAnalysis, isAnalyzing>>
    /\ alertShown' = FALSE
    /\ evalPrev' = <<>>
    /\ UNCHANGED <<sensors, history, devices, thresholds, effectPending, now,
                   tickCount, freshReading, timerVars>>

----------------------------------------------------------------------------
(* Specifications *)

\* The part of the state that starts the same way in every specification:
\* no tick yet, the reading on display not yet evaluated, the interval just
\* set by the mount with the initial devices in its closure, no report asked.
InitRest ==
    /\ effectPending = TRUE
    /\ alertShown = FALSE
    /\ evalPrev = <<>>
    /\ tickCount = 0
    /\ freshReading = TRUE
    /\ timerElapsed = 0
    /\ intervalDevices = InitialDevices
    /\ isAnalyzing = FALSE
    /\ aiAnalysis = "null"
    /\ inFlight = 0
    /\ unhandledRejection = FALSE

\* The state after construction: the useState initial values, effects of
\* the mount not yet run.
InitConstructed ==
    /\ now = 0
    /\ sensors = InitialSensors
    /\ \E seed \in Seeds : history = generateInitialData(0, seed)
    /\ devices = InitialDevices
    /\ thresholds = InitialThresholds
    /\ InitRest

\* Readings the console can be showing when the history has just been reset
\* and the automation flag has just been switched on: every humidity in
\* [30, 99] and every mold index in [0, 100] (in steps of 0.5) is reached by
\* running with automation off.  InitHumidity and InitMold hold the
\* constructed reading (55, 10) and values next to the controller's
\* thresholds; EdgeHumidity and EdgeMold sit next to the clamps;
\* GrowthHumidity sits next to the two humidities at which mold starts to
\* grow, GrowthMold next to the lower clamp and well inside the range.
\* ClimbHumidity and ClimbMold are readings of a run in which automation was
\* never switched off: with the slider at 90 the humidity drifts up past 70
\* and 80 with the fan and the dehumidifier off, and the mold index climbs
\* from 10 in steps of 0.5 and 1.5 towards 40 with the UV light off.
\* FloorHumidity holds readings just above the low slider positions of
\* FloorSlider, on the way down from 55 with the devices off.
InitHumidity == {5500, 6490}
InitMold == {450, 1000, 4050}
EdgeHumidity == {3010, 9890}
EdgeMold == {100, 9950}
GrowthHumidity == {7010, 8010}
GrowthMold == {100, 1000}
ClimbHumidity == {7010, 8010}
ClimbMold == {3900, 3950, 4000}
ClimbSlider == {65, 90}
FloorHumidity == {3510, 3610}
FloorMold == {1000}
FloorSlider == {35, 36}

InitFrom(hums, molds) ==
    /\ now = 0
    /\ sensors \in [timestamp : {0}, humidity : hums, moldIndex : molds]
    /\ history = generateInitialData(0, 0)
    /\ devices = InitialDevices
    /\ thresholds = InitialThresholds
    /\ InitRest

Init == InitFrom(InitHumidity, InitMold)

InitEdge == InitFrom(EdgeHumidity, EdgeMold)

\* The console without the clock between the events: a tick stands for the
\* rest of the period passing and the callback running, so the user acts
\* right after a tick or a re-subscription.  SpecTimer below lets time pass
\* between the events.
Next ==
    \/ \E r \in RandChoices : Tick(r, MaxTicks)
    \/ AutomationEffect
    \/ \E device \in DeviceNames : toggleDevice(device)
    \/ \E v \in SliderChoices : SetMaxHumidity(v)
    \/ \E seed \in Seeds : ResetHistory(seed)

Spec == Init /\ [][Next]_vars

SpecEdge == InitEdge /\ [][Next]_vars

InitGrowth == InitFrom(GrowthHumidity, GrowthMold)

SpecGrowth == InitGrowth /\ [][Next]_vars

\* The initial state of InitFrom with the slider at one of maxHums, the
\* effect of that slider change not yet run.
InitHeld(hums, molds, maxHums) ==
    /\ now = 0
    /\ sensors \in [timestamp : {0}, humidity : hums, moldIndex : molds]
    /\ history = generateInitialData(0, 0)
    /\ devices = InitialDevices
    /\ thresholds \in [maxHumidity : maxHums,
                        triggerUVPeriod : {InitialThresholds.triggerUVPeriod}]
    /\ InitRest

\* The console with automation left on: the user moves the slider and
\* presses the three device buttons (which are refused), never autoMode.
NextAuto ==
    \/ \E r \in RandChoices : Tick(r, MaxAutoTicks)
    \/ AutomationEffect
    \/ \E device \in DeviceNames \ {"autoMode"} : toggleDevice(device)
    \/ \E v \in ClimbSlider : SetMaxHumidity(v)

InitAuto == InitHeld(ClimbHumidity, ClimbMold, ClimbSlider)

SpecAuto == InitAuto /\ [][NextAuto]_vars

\* The console with automation left on and the slider left where it is.
NextFloor ==
    \/ \E r \in RandChoices : Tick(r, MaxFloorTicks)
    \/ AutomationEffect
    \/ \E device \in DeviceNames \ {"autoMode"} : toggleDevice(device)

InitFloor == InitHeld(FloorHumidity, FloorMold, FloorSlider)

SpecFloor == InitFloor /\ [][NextFloor]_vars

\* A long run of the closed loop from the constructed state, the random
\* outcomes following one pseudo-random sequence.
TickLong == Tick(RandSeq(0, tickCount), MaxLongTicks)

NextLong ==
    \/ TickLong
    \/ AutomationEffect
    \/ \E seed \in Seeds : ResetHistory(seed)

SpecLong == InitConstructed /\ [][NextLong]_vars

\* The report tab next to the running console: requests are started and
\* answered at any point between the other steps.
NextReport ==
    \/ handleGeminiAnalysis
    \/ \E outcome \in ServiceOutcomes : ReportSettles(outcome)
    \/ \E r \in RandChoices : Tick(r, MaxTicks)
    \/ AutomationEffect
    \/ \E device \in DeviceNames : toggleDevice(device)
    \/ \E v \in SliderChoices : SetMaxHumidity(v)

SpecReport == InitConstructed /\ [][NextReport]_vars

\* The closed loop under React.StrictMode (index.tsx): the runtime invokes
\* the setSensors updater of a tick once (a production build, or a state
\* computed eagerly at dispatch) or twice (a development build), each
\* invocation with its own Math.random() outcome.
UpdaterRuns ==
    {<<r>> : r \in RandChoices} \cup {<<r1, r2>> : r1 \in RandChoices, r2 \in RandChoices}

TickStrict == \E rs \in UpdaterRuns : TickInvoked(rs, MaxStrictTicks)

NextStrict ==
    \/ TickStrict
    \/ AutomationEffect
    \/ \E seed \in Seeds : ResetHistory(seed)

SpecStrict == InitConstructed /\ [][NextStrict]_vars

\* The console with the clock: time passes in steps between the events, and
\* the interval's callback runs when the interval is due.  Time keeps
\* passing (no infinity of events in one instant), an interval that is due
\* again and again fires, and a scheduled effect runs; the user and the
\* service act whenever they like, or never.
TimerTick == TimerFires(RandSeq(0, tickCount), MaxTimerTicks)

TimePasses == \E step \in AdvanceChoices : Advance(step)

NextTimer ==
    \/ TimePasses
    \/ TimerTick
    \/ AutomationEffect
    \/ \E device \in TimerDevices : toggleDevice(device)
    \/ \E v \in SliderChoices : SetMaxHumidity(v)
    \/ handleGeminiAnalysis
    \/ \E outcome \in TimerOutcomes : ReportSettles(outcome)

SpecTimer ==
    /\ InitFrom({InitialSensors.humidity}, {InitialSensors.moldIndex})
    /\ [][NextTimer]_vars
    /\ SF_vars(TimePasses)
    /\ SF_vars(TimerTick)
    /\ WF_vars(AutomationEffect)

----------------------------------------------------------------------------
(* Vocabulary of the properties *)

\* The last step was a controller evaluation (the setDevices updater ran).
Evaluated == evalPrev # <<>>

\* The actuator state that evaluation started from.
Before == evalPrev[1]

\* That evaluation was the first one of its reading.
EvaluatedNewReading == evalPrev[2]

\* The step changes the fan, the dehumidifier or the UV light.
ActuatorsChange ==
    \/ devices'.fan # devices.fan
    \/ devices'.dehumidifier # devices.dehumidifier
    \/ devices'.uvLight # devices.uvLight

\* maxHumidityPercent, in hundredths of a percent
MaxHumidityNow == thresholds.maxHumidity * 100

InRange(reading) ==
    /\ HumidityMin <= reading.humidity /\ reading.humidity <= HumidityMax
    /\ MoldMin <= reading.moldIndex /\ reading.moldIndex <= MoldMax

ManualNames == DeviceNames \ {"autoMode"}

\* The timestamps of h increase strictly from each entry to the next.
Chronological(h) == \A i \in 1..(Len(h) - 1) : h[i].timestamp < h[i + 1].timestamp

\* The step is a tick.
TickStep == tickCount' = tickCount + 1

----------------------------------------------------------------------------
(* Properties *)

\* C1: every reading a tick produces has 30 <= humidity <= 99 and
\* 0 <= moldIndex <= 100, so the current reading and every reading kept in
\* the history are within both bounds in every reachable state.
C1_ReadingsWithinBounds ==
    /\ InRange(sensors)
    /\ \A i \in 1..Len(history) : InRange(history[i])

\* A tick has produced a reading that both upper clamps cut.
C1_Witness ==
    /\ sensors.timestamp > 0
    /\ sensors.humidity = HumidityMax
    /\ sensors.moldIndex = MoldMax
    /\ history[Len(history)] = sensors

\* C2: the history buffer never holds more than 50 readings, and after 60
\* ticks without a reset it holds exactly 50.
C2_HistoryAtMost50 ==
    /\ Len(history) <= 50
    /\ (now = 60 * TickPeriod /\ history[1].timestamp > 0) => Len(history) = 50

\* C3: a manual toggle of fan, dehumidifier or uvLight attempted while
\* autoMode is true leaves all four fields of the device state unchanged and
\* raises the alert.
C3_ManualToggleRejected ==
    [][\A d \in ManualNames :
         (devices.autoMode /\ toggleDevice(d)) => (devices' = devices /\ alertShown')]_vars

\* The alert has just been raised with automation on.
C3_Witness == alertShown /\ devices.autoMode

\* C4: with automation off, no step other than a manual toggle (a tick, a
\* threshold change, a run of the automation effect, a history reset)
\* changes fan, dehumidifier or uvLight.
C4_NoControlWhenAutomationOff ==
    [][(~devices.autoMode /\ ~(\E d \in DeviceNames : toggleDevice(d)))
         => /\ devices'.fan = devices.fan
            /\ devices'.dehumidifier = devices.dehumidifier
            /\ devices'.uvLight = devices.uvLight]_vars

\* With automation off the effect has run on a reading a tick produced, one
\* that would switch the UV light on, and the light is off.
C4_Witness ==
    /\ ~devices.autoMode
    /\ ~effectPending
    /\ sensors.timestamp > 0
    /\ sensors.moldIndex > MoldOn
    /\ ~devices.uvLight

\* C5: after a controller evaluation of a reading with humidity above
\* maxHumidity the fan and the dehumidifier are both on, whatever they were
\* before; and an evaluation that finds both on leaves both on unless the
\* humidity is below maxHumidity - 5.
C5_AboveMaxBothOn ==
    /\ ((Evaluated /\ sensors.humidity > MaxHumidityNow)
          => (devices.fan /\ devices.dehumidifier))
    /\ ((Evaluated /\ Before.fan /\ Before.dehumidifier
           /\ sensors.humidity >= MaxHumidityNow - HysteresisBand)
          => (devices.fan /\ devices.dehumidifier))

\* C6: a controller evaluation of a reading with
\* maxHumidity - 5 <= humidity <= maxHumidity changes neither the fan nor
\* the dehumidifier.
C6_DeadBandHolds ==
    (Evaluated /\ MaxHumidityNow - HysteresisBand <= sensors.humidity
               /\ sensors.humidity <= MaxHumidityNow)
      => /\ devices.fan = Before.fan
         /\ devices.dehumidifier = Before.dehumidifier

\* An evaluation inside the dead band found both devices on and left them on.
C6_Witness ==
    /\ Evaluated
    /\ MaxHumidityNow - HysteresisBand <= sensors.humidity
    /\ sensors.humidity <= MaxHumidityNow
    /\ Before.fan /\ Before.dehumidifier
    /\ devices.fan /\ devices.dehumidifier

\* C7: after a controller evaluation of a reading with
\* humidity < maxHumidity - 5 the fan and the dehumidifier are both off,
\* whatever they were before.
C7_BelowBandBothOff ==
    (Evaluated /\ sensors.humidity < MaxHumidityNow - HysteresisBand)
      => (~devices.fan /\ ~devices.dehumidifier)

\* An evaluation below the band found only the fan on and switched it off.
C7_Witness ==
    /\ Evaluated
    /\ sensors.humidity < MaxHumidityNow - HysteresisBand
    /\ Before.fan /\ ~Before.dehumidifier
    /\ ~devices.fan /\ ~devices.dehumidifier

\* C8: a controller evaluation switches the UV light on when moldIndex > 40
\* and it was off, off when moldIndex < 5 and it was on, and leaves it as it
\* was when 5 <= moldIndex <= 40, at every humidity, threshold, fan and
\* dehumidifier state.
C8_MoldControl ==
    Evaluated =>
      /\ ((sensors.moldIndex > MoldOn /\ ~Before.uvLight) => devices.uvLight)
      /\ ((sensors.moldIndex < MoldOff /\ Before.uvLight) => ~devices.uvLight)
      /\ ((MoldOff <= sensors.moldIndex /\ sensors.moldIndex <= MoldOn)
            => devices.uvLight = Before.uvLight)

\* An evaluation inside the mold dead band found the UV light on and left
\* it on, with the humidity control idle.
C8_Witness ==
    /\ Evaluated
    /\ MoldOff <= sensors.moldIndex /\ sensors.moldIndex <= MoldOn
    /\ Before.uvLight /\ devices.uvLight
    /\ ~devices.fan /\ ~devices.dehumidifier

\* C9: fan = dehumidifier initially; every run of the automation effect
\* that changes either of them leaves them equal; and every step other than
\* a manual toggle of the fan or the dehumidifier keeps them equal.
C9_FanAndDehumidifierTogether ==
    /\ devices.fan = devices.dehumidifier
    /\ [][/\ ((AutomationEffect /\ (devices'.fan # devices.fan
                                      \/ devices'.dehumidifier # devices.dehumidifier))
                => devices'.fan = devices'.dehumidifier)
           /\ ((devices.fan = devices.dehumidifier
                  /\ ~(toggleDevice("fan") \/ toggleDevice("dehumidifier")))
                => devices'.fan = devices'.dehumidifier)]_vars

\* The controller has switched both devices on from both off.
C9_Witness ==
    /\ Evaluated
    /\ ~Before.fan /\ ~Before.dehumidifier
    /\ devices.fan /\ devices.dehumidifier

\* C10: toggling autoMode in any state, or one of the three devices with
\* automation off, negates that field only: the other three fields, the
\* reading, the thresholds and the history are unchanged and no alert is
\* raised.
C10_AcceptedToggleFlipsOneField ==
    [][\A d \in DeviceNames :
         (toggleDevice(d) /\ (d = "autoMode" \/ ~devices.autoMode))
           => /\ devices' = [devices EXCEPT ![d] = ~@]
              /\ ~alertShown'
              /\ UNCHANGED <<sensors, thresholds, history>>]_vars

\* Automation has been switched off with both humidity devices running, and
\* they are still running.
C10_Witness ==
    /\ ~devices.autoMode
    /\ devices.fan /\ devices.dehumidifier
    /\ effectPending
    /\ ~alertShown

\* C11: when the text-generation call errors, analyzeWardrobeEnvironment
\* resolves to the sentence of its catch block and does not reject: the
\* handler stores that sentence as the report and clears the busy flag, no
\* rejection leaves the handler in any state, and the reading, the history,
\* the devices and the thresholds are unchanged.
C11_FailureResolvesToSentinel ==
    /\ ~unhandledRejection
    /\ [][ReportSettles("error")
           => /\ analyzeWardrobeEnvironment("error")
                   = [status |-> "fulfilled", value |-> FailureSentinel]
              /\ aiAnalysis' = FailureSentinel
              /\ ~isAnalyzing'
              /\ ~unhandledRejection'
              /\ UNCHANGED <<sensors, history, devices, thresholds>>]_vars

\* A failed request has been answered after a tick: the sentence of the
\* catch block is on display and the console is idle again.
C11_Witness ==
    /\ aiAnalysis = FailureSentinel
    /\ ~isAnalyzing
    /\ inFlight = 0
    /\ tickCount > 0

\* C12: at most one call of analyzeWardrobeEnvironment is outstanding in
\* any state, and isAnalyzing is true exactly in the states in which one is:
\* true from the click to the answer, false again after the answer, whatever
\* the answer was and whatever happened in between.
C12_OneRequestBusyFlag ==
    /\ inFlight <= 1
    /\ (isAnalyzing <=> inFlight = 1)

\* A second request is outstanding after a first one has failed, and a tick
\* has run meanwhile.
C12_Witness ==
    /\ inFlight = 1
    /\ isAnalyzing
    /\ aiAnalysis = FailureSentinel
    /\ tickCount > 0

\* C13: any two consecutive ticks are exactly TickPeriod apart, whatever
\* happened between them (while the clock is followed).
C13_FixedTickPeriod ==
    [][(tickCount' = tickCount + 1 /\ tickCount >= 1
          /\ sensors.timestamp + TickPeriod <= ClockHorizon)
         => sensors'.timestamp - sensors.timestamp = TickPeriod]_vars

\* C14: whatever the number of ticks so far, another tick eventually fires
\* (as long as the model lets one fire).
C14_TickEventuallyFires ==
    \A k \in 0..(MaxTimerTicks - 1) : (tickCount = k) ~> (tickCount > k)

\* C15: the history is in chronological order in every state; a reset
\* replaces it with exactly 20 readings, 3000 ms apart, all earlier than the
\* moment of the reset, with humidity in [50, 60] and moldIndex in [5, 10],
\* and leaves the reading, the devices and the thresholds unchanged.
C15_ResetHistory ==
    /\ Chronological(history)
    /\ [][/\ Chronological(history')
           /\ ((\E seed \in Seeds : ResetHistory(seed))
                 => /\ Len(history') = 20
                    /\ \A i \in 1..19 :
                          history'[i + 1].timestamp - history'[i].timestamp = 3000
                    /\ \A i \in 1..20 :
                          /\ history'[i].timestamp < now
                          /\ 5000 <= history'[i].humidity /\ history'[i].humidity <= 6000
                          /\ 500 <= history'[i].moldIndex /\ history'[i].moldIndex <= 1000
                    /\ UNCHANGED <<sensors, devices, thresholds>>)]_vars

\* The history was reset after some ticks and one tick has run since: 20
\* synthetic readings, the newest of them 3000 ms before the reset, followed
\* by the current reading.
C15_Witness ==
    /\ tickCount > 1
    /\ Len(history) = 21
    /\ history[21] = sensors
    /\ history[20].timestamp = sensors.timestamp - TickPeriod - SeedSpacing

\* C16: a tick changes moldIndex by -2.0 when the UV light is on, and
\* otherwise by 0 when the tick's humidity is at most 70, by +0.5 when it is
\* above 70 and at most 80, and by +1.5 when it is above 80; the result is
\* clamped to [0, 100].
C16_MoldUpdate ==
    [][TickStep =>
         LET change == IF devices.uvLight THEN -200
                       ELSE IF sensors'.humidity <= 7000 THEN 0
                       ELSE IF sensors'.humidity <= 8000 THEN 50
                       ELSE 150
             moved == sensors.moldIndex + change
         IN sensors'.moldIndex = IF moved < 0 THEN 0
                                 ELSE IF moved > 10000 THEN 10000
                                 ELSE moved]_vars

\* A tick with the UV light off has left the humidity above 80 and raised
\* the mold index from 10 to 11.5.
C16_Witness ==
    /\ tickCount = 1
    /\ ~devices.uvLight
    /\ sensors.humidity > 8000
    /\ sensors.moldIndex = 1150

C18_OnlyOnNewReading ==
    (Evaluated /\ devices # Before) => EvaluatedNewReading

\* C18, amended: the automation effect is scheduled by a tick, by a change
\* of maxHumidity and by a toggle of autoMode, by each of them and by
\* nothing else, and it runs once per scheduling; the fan, the dehumidifier
\* and the UV light change only in a run of the effect with automation on
\* or in an accepted manual toggle.
C18_RunsOnDependencyChange ==
    [][/\ ((TickStep \/ thresholds'.maxHumidity # thresholds.maxHumidity
                     \/ devices'.autoMode # devices.autoMode)
            => effectPending')
       /\ ((effectPending' /\ ~effectPending)
            => (TickStep \/ thresholds'.maxHumidity # thresholds.maxHumidity
                         \/ devices'.autoMode # devices.autoMode))
       /\ (AutomationEffect => ~effectPending')
       /\ (ActuatorsChange
            => \/ (AutomationEffect /\ devices.autoMode)
               \/ (~devices.autoMode /\ \E d \in ManualNames : toggleDevice(d)))]_vars

\* The controller has switched the fan and the dehumidifier on in a second
\* evaluation of the same reading, after the threshold was lowered below it.
C18_Witness ==
    /\ Evaluated
    /\ ~EvaluatedNewReading
    /\ ~Before.fan /\ devices.fan /\ devices.dehumidifier
    /\ tickCount = 0
    /\ sensors.humidity > MaxHumidityNow

\* C19: an evaluation in which none of the four transition conditions
\* holds returns prev itself (the changed flag stays false, nothing is
\* written), an evaluation in which one holds changes the devices, and
\* evaluating the same reading and thresholds again on the result returns
\* the result.
C19_WriteOnChangeIdempotent ==
    Evaluated =>
      LET transition ==
            \/ (sensors.humidity > MaxHumidityNow /\ ~Before.fan /\ ~Before.dehumidifier)
            \/ (sensors.humidity < MaxHumidityNow - 500
                  /\ (Before.fan \/ Before.dehumidifier))
            \/ (sensors.moldIndex > 4000 /\ ~Before.uvLight)
            \/ (sensors.moldIndex < 500 /\ Before.uvLight)
      IN /\ (~transition => (devices = Before
                               /\ ~DecideChanged(Before, sensors, thresholds)))
         /\ (transition => (devices # Before
                              /\ DecideChanged(Before, sensors, thresholds)))
         /\ Decide(devices, sensors, thresholds) = devices
         /\ ~DecideChanged(devices, sensors, thresholds)

\* The same reading has been evaluated a second time, above the threshold
\* with the fan and the dehumidifier already running and the UV light on:
\* the devices are the ones the evaluation started from.
C19_Witness ==
    /\ Evaluated
    /\ ~EvaluatedNewReading
    /\ sensors.humidity > MaxHumidityNow
    /\ Before.fan /\ Before.dehumidifier /\ Before.uvLight
    /\ devices = Before

\* C20: every tick appends exactly one reading to the history, the one it
\* makes the current reading: the last history entry is the current reading
\* after the tick, and below the capacity the history after the tick is the
\* history before it with that reading appended.
C20_OneReadingPerTick ==
    [][TickStep
         => /\ history'[Len(history')] = sensors'
            /\ (Len(history) < 50 => history' = Append(history, sensors'))]_vars

\* C21: with automation never switched off, no reading has a mold index
\* above 41.5: neither the current reading nor any reading in the history.
C21_MoldAtMost41_5 ==
    /\ sensors.moldIndex <= 4150
    /\ \A i \in 1..Len(history) : history[i].moldIndex <= 4150

\* A tick took the mold index from 40 to 41.5 with the UV light off, the
\* controller switched the light on, and the next tick brought it to 39.5.
C21_Witness ==
    /\ devices.autoMode
    /\ devices.uvLight
    /\ tickCount >= 2
    /\ sensors.moldIndex = 3950
    /\ history[Len(history) - 1].moldIndex = 4150

\* C22: with automation on and the slider held, a fan and a dehumidifier
\* the controller has switched on are switched off again at some point.
\* No reading is below 30, so if they are still on after the evaluation of
\* a reading of 30 they stay on for ever: the evaluation of a reading of 30
\* that finds both on switches both off.
C22_SwitchedOffAtTheFloor ==
    (Evaluated /\ devices.autoMode /\ sensors.humidity = 3000
               /\ Before.fan /\ Before.dehumidifier)
      => (~devices.fan /\ ~devices.dehumidifier)

====
